---- MODULE Spec2Model ----
(***************************************************************************)
(* Model of the persistent node store of BTCLottery/iavl.                  *)
(*                                                                         *)
(*   src/nodedb.go         nodeDB   (one mutex, memNodes staging map)      *)
(*   src/unnamed/part_000  nodeDB2  (batch mutex + node cache mutex)       *)
(*                                                                         *)
(* The store is driven by a versioned tree: it builds a working tree in    *)
(* memory, saves it with SaveBranch, records the displaced nodes with      *)
(* SaveOrphans, seals the version with SaveRoot and flushes with Commit;   *)
(* old versions are pruned with DeleteVersion.  Every handler is an        *)
(* operator from a store record to a result record, computed as the code   *)
(* computes it; the actions apply the handlers to the variables.           *)
(***************************************************************************)
EXTENDS Integers, Sequences, FiniteSets, TLC

\* ------------------------------------------------------------------ bounds
MaxVersion == 3      \* versions are 1..MaxVersion
MaxHash    == 3      \* node objects (and their hashes) are 1..MaxHash
CacheSize  == 1      \* nodeCacheSize of the store that has the cache enabled
MaxCacheVersion == 2 \* versions built under SpecCache
NReaders   == 1      \* threads that call GetNode beside the one writer

\* 1<<63 - 1 in getLatestVersion: the upper end of the version domain (every
\* version of the model is below it; the model's integers are 32 bits wide).
MaxInt64 == 2147483647

Nil == 0                \* nil pointer / empty hash ([]byte{} and nil have len 0)
Absent == -1            \* db.Get found no entry (a nil value)

VARIABLES
    ctor,           \* the constructor used: "NewNodeDB" | "NewNodeDB3" | "NewNodeDB2"
    onlyFlushOnSave,\* nodeDB.nodeCacheOnlyFlushOnSave (NewNodeDB3), FALSE otherwise
    db,             \* ndb.db: backing store, key -> value
    batch,          \* ndb.batch: pending operations, key -> [op, val]
    latestVersion,  \* ndb.latestVersion
    memNodes,       \* nodeDB.memNodes: set of hashes staged in memory
    heap,           \* the tree's node objects, object id -> *Node
    queue,          \* nodeCacheQueue + nodeCache of the store with CacheSize
    queue0,         \* the same of a store run side by side with cache size 0
    phase,          \* tree driver: where the version under construction is
    workRoot,       \* tree driver: root object of the working tree (Nil: empty)
    baseRoot,       \* tree driver: root of the last version given to SaveRoot
    proto,          \* history: the calls so far followed the tree protocol
    ret,            \* the last call: operation, arguments and results
    batchMtx,       \* nodeDB2.batchMtx: the thread that holds it, or Unlocked
    nodeCacheMtx,   \* nodeDB2.nodeCacheMtx: the thread that holds it, or Unlocked
    mtx,            \* nodeDB.mtx: the thread that holds it, or Unlocked
    thr             \* per thread: where it is in the call it is running

vars == <<ctor, onlyFlushOnSave, db, batch, latestVersion, memNodes, heap,
          queue, queue0, phase, workRoot, baseRoot, proto, ret,
          batchMtx, nodeCacheMtx, mtx, thr>>

\* the locks and the threads; the calls taken as atomic leave them alone
lockvars == <<batchMtx, nodeCacheMtx, mtx, thr>>

Versions == 1..MaxVersion
Hashes   == 1..MaxHash

Max(S) == CHOOSE x \in S : \A y \in S : y <= x

\* --------------------------------------------------------------- key codec
\* nodeKeyFormat   = NewKeyFormat('n', hashSize)                  n<hash>
\* orphanKeyFormat = NewKeyFormat('o', int64Size, int64Size, hashSize)
\*                                          o<last-version><first-version><hash>
\* rootKeyFormat   = NewKeyFormat('r', int64Size)                 r<version>
\* A key is its prefix byte and its fields in key order (v1 before v2).
nodeKey(hash) == [prefix |-> "n", v1 |-> 0, v2 |-> 0, hash |-> hash]

orphanKey(fromVersion, toVersion, hash) ==
    [prefix |-> "o", v1 |-> toVersion, v2 |-> fromVersion, hash |-> hash]

rootKey(version) == [prefix |-> "r", v1 |-> version, v2 |-> 0, hash |-> 0]

\* ------------------------------------------------- backing store and batch
EmptyMap == [k \in {} |-> 0]

\* db.Get(key) of a root key: the value, or nil
dbGet(d, key) == IF key \in DOMAIN d THEN d[key] ELSE Absent

\* db.Get(key) == nil
dbMissing(d, key) == key \notin DOMAIN d

\* the value slot of a buffered deletion (it carries no value)
NoBytes == [key |-> 0, version |-> 0, leftHash |-> 0, rightHash |-> 0]
NoValue(key) == IF key.prefix = "n" THEN NoBytes ELSE Absent

\* dbm.IteratePrefix(db, prefix): the keys under a prefix
KeysWithPrefix(d, p) == {k \in DOMAIN d : k.prefix = p}

\* batch.Set(key, value): buffered; a later operation on the key replaces it
batchSet(b, key, value) ==
    [k \in DOMAIN b \cup {key} |->
        IF k = key THEN [op |-> "set", val |-> value] ELSE b[k]]

\* batch.Delete(key): buffered
batchDelete(b, key) ==
    [k \in DOMAIN b \cup {key} |->
        IF k = key THEN [op |-> "delete", val |-> NoValue(key)] ELSE b[k]]

\* batch.Write(): the buffered operations applied to the store, atomically
batchWrite(d, b) ==
    LET keep == (DOMAIN d \ DOMAIN b) \cup {k \in DOMAIN b : b[k].op = "set"}
    IN  [k \in keep |-> IF k \in DOMAIN b THEN b[k].val ELSE d[k]]

\* ------------------------------------------------------------- node codec
\* node.writeBytes: the serialized form holds the content of the node, never
\* its hash, its flags or its in-memory child pointers.
writeBytes(node) ==
    [key |-> node.key, version |-> node.version,
     leftHash |-> node.leftHash, rightHash |-> node.rightHash]

\* MakeNode(buf): a fresh node with the decoded content; hash and flags unset
MakeNode(buf) ==
    [key |-> buf.key, version |-> buf.version,
     leftHash |-> buf.leftHash, rightHash |-> buf.rightHash,
     hash |-> Nil, leftNode |-> Nil, rightNode |-> Nil,
     persisted |-> FALSE, persistedMem |-> FALSE]

\* What a caller sees of a *Node it was handed
View(node) ==
    [hash |-> node.hash, content |-> writeBytes(node), persisted |-> node.persisted]

NoNode == [hash |-> Nil, content |-> NoBytes, persisted |-> FALSE]

\* ------------------------------------------------------------- node cache
\* nodeCacheQueue is the sequence of list elements, front first.  An element
\* is [hash, node, mapped]: node is the *Node it holds, either a pointer to a
\* tree object ([obj |-> id]) or a node decoded by GetNode ([obj |-> Nil,
\* val |-> node]); mapped says that nodeCache[hash] points to this element.
HeapRef(id) == [obj |-> id, val |-> NoNode]
Decoded(node) == [obj |-> Nil, val |-> View(node)]

\* the node behind a cache element, as the caller sees it
Deref(h, ref) == IF ref.obj # Nil THEN View(h[ref.obj]) ELSE ref.val

\* index of the element nodeCache[hash] points to, 0 if hash is no key
cacheIndex(q, hash) ==
    IF \E i \in 1..Len(q) : q[i].hash = hash /\ q[i].mapped
    THEN CHOOSE i \in 1..Len(q) : q[i].hash = hash /\ q[i].mapped
    ELSE 0

RemoveAt(q, i) == SubSeq(q, 1, i - 1) \o SubSeq(q, i + 1, Len(q))

\* delete(ndb.nodeCache, hash)
cacheUnmap(q, hash) ==
    [i \in 1..Len(q) |-> IF q[i].hash = hash THEN [q[i] EXCEPT !.mapped = FALSE] ELSE q[i]]

\* oldest := Front(); hash := Remove(oldest).hash; delete(nodeCache, hash)
evictOldest(q) == cacheUnmap(Tail(q), Head(q).hash)

\* nodeCacheQueue.PushBack(node); nodeCache[hash] = elem
cachePush(q, hash, ref) ==
    Append(cacheUnmap(q, hash), [hash |-> hash, node |-> ref, mapped |-> TRUE])

\* cacheNode that removes the element it pushed where it should remove the front
nodeDB2_cacheNode_newest(q, size, hash, ref) ==
    LET q1 == cachePush(q, hash, ref)
    IN  IF Len(q1) > size THEN cacheUnmap(SubSeq(q1, 1, Len(q1) - 1), hash) ELSE q1

\* nodeDB2.cacheNode
nodeDB2_cacheNode(q, size, hash, ref) ==
    LET q1 == cachePush(q, hash, ref)
    IN  IF Len(q1) > size THEN evictOldest(q1) ELSE q1

\* nodeDB.cacheNode
nodeDB_cacheNode(q, size, flushOnSave, hash, ref) ==
    LET q1 == cachePush(q, hash, ref)
    IN  IF ~flushOnSave /\ Len(q1) > size THEN evictOldest(q1) ELSE q1

\* nodeDB.FlushCache
RECURSIVE FlushCache(_, _)
FlushCache(q, size) ==
    IF Len(q) > size THEN FlushCache(evictOldest(q), size) ELSE q

\* uncacheNode (both implementations)
uncacheNode(q, hash) ==
    LET i == cacheIndex(q, hash)
    IN  IF i # 0 THEN RemoveAt(q, i) ELSE q

\* getCachedNode / the cache check of nodeDB.GetNode: MoveToBack on a hit
cacheTouch(q, hash) ==
    LET i == cacheIndex(q, hash)
    IN  IF i # 0 THEN Append(RemoveAt(q, i), q[i]) ELSE q

\* ------------------------------------------------------------ store record
\* The fields of one store object, with the configuration its constructor
\* set.  NewNodeDB allocates dbMem and memNodes; NewNodeDB3 leaves both nil.
\* log is the sequence of the hashes that the call being run has given to
\* batch.Set(nodeKey(hash), .), in the order of the calls.
Store(q, size) ==
    [ctor |-> ctor, onlyFlush |-> onlyFlushOnSave, size |-> size,
     db |-> db, batch |-> batch, latestVersion |-> latestVersion,
     memNodes |-> memNodes, heap |-> heap, queue |-> q, log |-> <<>>]

Ok(S) == [s |-> S, err |-> "", node |-> NoNode, val |-> Absent]
Fail(S, e) == [s |-> S, err |-> e, node |-> NoNode, val |-> Absent]

\* cacheNode of the store's implementation
cacheNode(S, hash, ref) ==
    IF S.ctor = "NewNodeDB2"
    THEN [S EXCEPT !.queue = nodeDB2_cacheNode(S.queue, S.size, hash, ref)]
    ELSE [S EXCEPT !.queue = nodeDB_cacheNode(S.queue, S.size, S.onlyFlush, hash, ref)]

\* ------------------------------------------------------------ version index
\* getPreviousVersion: the first key of ReverseIterator(rootKey(1), rootKey(version))
\* over the backing store, 0 when the range is empty
getPreviousVersion(d, version) ==
    LET below == {k.v1 : k \in {r \in KeysWithPrefix(d, "r") : 1 <= r.v1 /\ r.v1 < version}}
    IN  IF below = {} THEN 0 ELSE Max(below)

\* getLatestVersion that trusts a zero counter where it should scan the roots
getLatestVersion_unscanned(S) == S

\* getLatestVersion: the value is the latestVersion field of the result
getLatestVersion(S) ==
    IF S.latestVersion = 0
    THEN [S EXCEPT !.latestVersion = getPreviousVersion(S.db, MaxInt64)]
    ELSE S

updateLatestVersion(S, version) ==
    IF S.latestVersion < version THEN [S EXCEPT !.latestVersion = version] ELSE S

\* nodeDB.getRoot reads dbMem before db; nodeDB2.getRoot reads db.  dbMem is
\* the empty NewMemDB() of NewNodeDB (no modelled operation writes to it) and
\* nil under NewNodeDB3, where the call dereferences a nil interface.
getRoot(S, version) ==
    IF S.ctor = "NewNodeDB3"
    THEN Fail(S, "panic")
    ELSE [Ok(S) EXCEPT !.val = dbGet(S.db, rootKey(version))]

\* Has
Has(S, hash) == ~dbMissing(S.db, nodeKey(hash))

\* saveRoot without the consecutive-version check
saveRoot_unchecked(S, hash, version) ==
    LET S1 == getLatestVersion(S)
    IN  Ok(updateLatestVersion(
               [S1 EXCEPT !.batch = batchSet(S1.batch, rootKey(version), hash)],
               version))

\* saveRoot (both implementations)
saveRoot(S, hash, version) ==
    LET S1 == getLatestVersion(S)
    IN  IF version # S1.latestVersion + 1
        THEN Fail(S1, "NonConsecutiveVersion")
        ELSE Ok(updateLatestVersion(
                 [S1 EXCEPT !.batch = batchSet(S1.batch, rootKey(version), hash)],
                 version))

\* SaveRoot(root, version): root is a node object
SaveRoot(S, root, version) ==
    IF S.heap[root].hash = Nil
    THEN Fail(S, "panic")
    ELSE saveRoot(S, S.heap[root].hash, version)

\* SaveEmptyRoot
SaveEmptyRoot(S, version) == saveRoot(S, Nil, version)

\* deleteRoot without the latest-version check
deleteRoot_unchecked(S, version, checkLatestVersion) ==
    Ok([S EXCEPT !.batch = batchDelete(S.batch, rootKey(version))])

\* deleteRoot: the deletion is buffered after the latest-version check
deleteRoot(S, version, checkLatestVersion) ==
    LET S1 == IF checkLatestVersion THEN getLatestVersion(S) ELSE S
    IN  IF checkLatestVersion /\ version = S1.latestVersion
        THEN Fail(S1, "panic")
        ELSE Ok([S1 EXCEPT !.batch = batchDelete(S1.batch, rootKey(version))])

\* ------------------------------------------------------------ orphan ledger
\* saveOrphan, after its fromVersion <= toVersion check
saveOrphan(S, hash, fromVersion, toVersion) ==
    [S EXCEPT !.batch = batchSet(S.batch, orphanKey(fromVersion, toVersion, hash), hash)]

\* The orphans a SaveOrphans loop can have written when it returns or panics:
\* the map is ranged over in an arbitrary order and saveOrphan panics on the
\* first entry with fromVersion > toVersion.
orphanSchedules_unchecked(orphans, toVersion) == {DOMAIN orphans}

orphanSchedules(orphans, toVersion) ==
    LET bad == {h \in DOMAIN orphans : orphans[h] > toVersion}
    IN  IF bad = {} THEN {DOMAIN orphans} ELSE SUBSET (DOMAIN orphans \ bad)

RECURSIVE saveOrphanSet(_, _, _, _)
saveOrphanSet(S, orphans, toVersion, W) ==
    IF W = {} THEN S
    ELSE LET h == Max(W)
         IN  saveOrphanSet(saveOrphan(S, h, orphans[h], toVersion),
                           orphans, toVersion, W \ {h})

saveOrphansTo(S, orphans, toVersion, W) ==
    LET S1 == saveOrphanSet(S, orphans, toVersion, W)
    IN  IF W = DOMAIN orphans THEN Ok(S1) ELSE Fail(S1, "panic")

\* nodeDB.SaveOrphans: toVersion := version - 1
nodeDB_SaveOrphans(S, version, orphans, W) ==
    saveOrphansTo(S, orphans, version - 1, W)

\* nodeDB2.SaveOrphans: toVersion := ndb.getPreviousVersion(version)
nodeDB2_SaveOrphans(S, version, orphans, W) ==
    saveOrphansTo(S, orphans, getPreviousVersion(S.db, version), W)

SaveOrphansToVersion(S, version) ==
    IF S.ctor = "NewNodeDB2" THEN getPreviousVersion(S.db, version) ELSE version - 1

SaveOrphans(S, version, orphans, W) ==
    IF S.ctor = "NewNodeDB2"
    THEN nodeDB2_SaveOrphans(S, version, orphans, W)
    ELSE nodeDB_SaveOrphans(S, version, orphans, W)

\* the callback with the test on the predecessor turned round: it destroys
\* the nodes an earlier version still needs
deleteOrphan_eager(S, key, predecessor) ==
    LET hash        == S.db[key]
        fromVersion == key.v2
        toVersion   == key.v1
        S1 == [S EXCEPT !.batch = batchDelete(S.batch, key)]
    IN  IF predecessor >= fromVersion \/ fromVersion = toVersion
        THEN [S1 EXCEPT !.batch = batchDelete(S1.batch, nodeKey(hash)),
                        !.queue = uncacheNode(S1.queue, hash)]
        ELSE S1

\* the callback that shortens a lifetime without deleting the old orphan key
deleteOrphan_keep(S, key, predecessor) ==
    LET hash        == S.db[key]
        fromVersion == key.v2
        toVersion   == key.v1
        S1 == [S EXCEPT !.batch = batchDelete(S.batch, key)]
    IN  IF predecessor < fromVersion \/ fromVersion = toVersion
        THEN [S1 EXCEPT !.batch = batchDelete(S1.batch, nodeKey(hash)),
                        !.queue = uncacheNode(S1.queue, hash)]
        ELSE saveOrphan(S, hash, fromVersion, predecessor)

\* the callback that destroys a node and leaves it in the node cache
deleteOrphan_cached(S, key, predecessor) ==
    LET hash        == S.db[key]
        fromVersion == key.v2
        toVersion   == key.v1
        S1 == [S EXCEPT !.batch = batchDelete(S.batch, key)]
    IN  IF predecessor < fromVersion \/ fromVersion = toVersion
        THEN [S1 EXCEPT !.batch = batchDelete(S1.batch, nodeKey(hash))]
        ELSE saveOrphan(S1, hash, fromVersion, predecessor)

\* the callback that destroys a node and leaves its orphan key behind
deleteOrphan_lone(S, key, predecessor) ==
    LET hash        == S.db[key]
        fromVersion == key.v2
        toVersion   == key.v1
        S1 == [S EXCEPT !.batch = batchDelete(S.batch, key)]
    IN  IF predecessor < fromVersion \/ fromVersion = toVersion
        THEN [S EXCEPT !.batch = batchDelete(S.batch, nodeKey(hash)),
                       !.queue = uncacheNode(S.queue, hash)]
        ELSE saveOrphan(S1, hash, fromVersion, predecessor)

\* The body of the traversal callback of deleteOrphans for one orphan key
deleteOrphan(S, key, predecessor) ==
    LET hash        == S.db[key]
        fromVersion == key.v2
        toVersion   == key.v1
        S1 == [S EXCEPT !.batch = batchDelete(S.batch, key)]
    IN  IF predecessor < fromVersion \/ fromVersion = toVersion
        THEN [S1 EXCEPT !.batch = batchDelete(S1.batch, nodeKey(hash)),
                        !.queue = uncacheNode(S1.queue, hash)]
        ELSE saveOrphan(S1, hash, fromVersion, predecessor)

\* traverseOrphansVersion(version, fn): the keys o<version>..., in key order
FirstKey(K) ==
    CHOOSE k \in K : \A j \in K :
        k.v2 < j.v2 \/ (k.v2 = j.v2 /\ k.hash <= j.hash)

RECURSIVE traverseOrphans(_, _, _)
traverseOrphans(S, K, predecessor) ==
    IF K = {} THEN S
    ELSE LET k == FirstKey(K)
         IN  traverseOrphans(deleteOrphan(S, k, predecessor), K \ {k}, predecessor)

\* deleteOrphans / deleteOrphansWithPredecessor(version, predecessor, nil)
deleteOrphans(S, version) ==
    LET predecessor == getPreviousVersion(S.db, version)
    IN  traverseOrphans(S, {k \in KeysWithPrefix(S.db, "o") : k.v1 = version},
                        predecessor)

\* DeleteVersion: deleteOrphans, then deleteRoot
DeleteVersion(S, version, checkLatestVersion) ==
    deleteRoot(deleteOrphans(S, version), version, checkLatestVersion)

\* ------------------------------------------------------------------- nodes
\* node._hash(): the hash is the content address of the node; the tree fixes
\* it when it creates the object (object id = hash), _hash() stores it.
hashNode(S, n) ==
    IF S.heap[n].hash = Nil THEN [S EXCEPT !.heap[n].hash = n] ELSE S

\* nodeDB2.GetNode without node.persisted = true on the decoded node
nodeDB2_GetNode_unflagged(S, hash) ==
    IF hash = Nil THEN Fail(S, "panic")
    ELSE IF cacheIndex(S.queue, hash) # 0
    THEN [Ok([S EXCEPT !.queue = cacheTouch(S.queue, hash)])
            EXCEPT !.node = Deref(S.heap, S.queue[cacheIndex(S.queue, hash)].node)]
    ELSE IF dbMissing(S.db, nodeKey(hash)) THEN Fail(S, "panic")
    ELSE LET buf == S.db[nodeKey(hash)]
             node == [MakeNode(buf) EXCEPT !.hash = hash]
         IN  [Ok(cacheNode(S, hash, Decoded(node))) EXCEPT !.node = View(node)]

\* nodeDB2.GetNode
nodeDB2_GetNode(S, hash) ==
    IF hash = Nil THEN Fail(S, "panic")
    ELSE IF cacheIndex(S.queue, hash) # 0
    THEN [Ok([S EXCEPT !.queue = cacheTouch(S.queue, hash)])
            EXCEPT !.node = Deref(S.heap, S.queue[cacheIndex(S.queue, hash)].node)]
    ELSE IF dbMissing(S.db, nodeKey(hash)) THEN Fail(S, "panic")
    ELSE LET buf == S.db[nodeKey(hash)]
             node == [MakeNode(buf) EXCEPT !.hash = hash, !.persisted = TRUE]
         IN  [Ok(cacheNode(S, hash, Decoded(node))) EXCEPT !.node = View(node)]

\* nodeDB.GetNode without node.persisted = true on the decoded node
nodeDB_GetNode_unflagged(S, hash) ==
    IF hash = Nil THEN Fail(S, "panic")
    ELSE IF cacheIndex(S.queue, hash) # 0
    THEN [Ok([S EXCEPT !.queue = cacheTouch(S.queue, hash)])
            EXCEPT !.node = Deref(S.heap, S.queue[cacheIndex(S.queue, hash)].node)]
    ELSE IF hash \in S.memNodes
    THEN [Ok(cacheNode(S, hash, HeapRef(hash))) EXCEPT !.node = View(S.heap[hash])]
    ELSE IF dbMissing(S.db, nodeKey(hash)) THEN Fail(S, "panic")
    ELSE LET buf == S.db[nodeKey(hash)]
             node == [MakeNode(buf) EXCEPT !.hash = hash]
         IN  [Ok(cacheNode(S, hash, Decoded(node))) EXCEPT !.node = View(node)]

\* nodeDB.GetNode that does not look into memNodes
nodeDB_GetNode_diskonly(S, hash) == nodeDB2_GetNode(S, hash)

\* nodeDB.GetNode: cache, then memNodes, then the backing store
nodeDB_GetNode(S, hash) ==
    IF hash = Nil THEN Fail(S, "panic")
    ELSE IF cacheIndex(S.queue, hash) # 0
    THEN [Ok([S EXCEPT !.queue = cacheTouch(S.queue, hash)])
            EXCEPT !.node = Deref(S.heap, S.queue[cacheIndex(S.queue, hash)].node)]
    ELSE IF hash \in S.memNodes
    THEN [Ok(cacheNode(S, hash, HeapRef(hash))) EXCEPT !.node = View(S.heap[hash])]
    ELSE IF dbMissing(S.db, nodeKey(hash)) THEN Fail(S, "panic")
    ELSE LET buf == S.db[nodeKey(hash)]
             node == [MakeNode(buf) EXCEPT !.persisted = TRUE, !.hash = hash]
         IN  [Ok(cacheNode(S, hash, Decoded(node))) EXCEPT !.node = View(node)]

GetNode(S, hash) ==
    IF S.ctor = "NewNodeDB2" THEN nodeDB2_GetNode(S, hash) ELSE nodeDB_GetNode(S, hash)

\* writeNode that also writes the node through to the backing store
writeNode_through(S, n) ==
    [S EXCEPT !.batch = batchSet(S.batch, nodeKey(S.heap[n].hash), writeBytes(S.heap[n])),
              !.log = Append(S.log, S.heap[n].hash),
              !.db = batchWrite(S.db, batchSet(EmptyMap, nodeKey(S.heap[n].hash),
                                               writeBytes(S.heap[n]))),
              !.heap[n].persisted = TRUE]

\* nodeDB2.writeNode
writeNode(S, n) ==
    [S EXCEPT !.batch = batchSet(S.batch, nodeKey(S.heap[n].hash), writeBytes(S.heap[n])),
              !.log = Append(S.log, S.heap[n].hash),
              !.heap[n].persisted = TRUE]

\* nodeDB2.SaveNode (flushToDisk is ignored)
nodeDB2_SaveNode(S, n) ==
    IF S.heap[n].hash = Nil THEN Fail(S, "panic")
    ELSE IF S.heap[n].persisted THEN Fail(S, "panic")
    ELSE Ok(cacheNode(writeNode(S, n), S.heap[n].hash, HeapRef(n)))

\* nodeDB.SaveNode.  Under NewNodeDB3 memNodes is a nil map: the staging
\* branch sets persistedMem and then panics on the map assignment.
nodeDB_SaveNode(S, n, flushToDisk) ==
    IF S.heap[n].hash = Nil THEN Fail(S, "panic")
    ELSE IF S.heap[n].persistedMem /\ ~flushToDisk THEN Ok(S)
    ELSE IF S.heap[n].persisted THEN Fail(S, "panic")
    ELSE IF flushToDisk
    THEN Ok(cacheNode(writeNode(S, n), S.heap[n].hash, HeapRef(n)))
    ELSE IF S.ctor = "NewNodeDB3"
    THEN Fail([S EXCEPT !.heap[n].persistedMem = TRUE], "panic")
    ELSE Ok(cacheNode([S EXCEPT !.heap[n].persistedMem = TRUE,
                                !.memNodes = @ \cup {S.heap[n].hash}],
                      S.heap[n].hash, HeapRef(n)))

SaveNode(S, n, flushToDisk) ==
    IF S.ctor = "NewNodeDB2" THEN nodeDB2_SaveNode(S, n)
    ELSE nodeDB_SaveNode(S, n, flushToDisk)

\* nodeDB2.saveBranch that leaves the child pointers of the saved node
RECURSIVE nodeDB2_saveBranch_keeping(_, _)
nodeDB2_saveBranch_keeping(S, n) ==
    IF S.heap[n].persisted THEN [Ok(S) EXCEPT !.val = S.heap[n].hash]
    ELSE
      LET L  == IF S.heap[n].leftNode # Nil
                THEN nodeDB2_saveBranch_keeping(S, S.heap[n].leftNode) ELSE Ok(S)
          S1 == IF S.heap[n].leftNode # Nil
                THEN [L.s EXCEPT !.heap[n].leftHash = L.val]
                ELSE L.s
          R  == IF S1.heap[n].rightNode # Nil
                THEN nodeDB2_saveBranch_keeping(S1, S1.heap[n].rightNode) ELSE Ok(S1)
          S2 == IF S1.heap[n].rightNode # Nil
                THEN [R.s EXCEPT !.heap[n].rightHash = R.val]
                ELSE R.s
          N  == nodeDB2_SaveNode(hashNode(S2, n), n)
      IN  IF L.err # "" THEN L
          ELSE IF R.err # "" THEN R
          ELSE IF N.err # "" THEN N
          ELSE [Ok(N.s) EXCEPT !.val = N.s.heap[n].hash]

\* nodeDB2.saveBranch: post-order; a panic of SaveNode ends the call; the
\* value is the hash it returns
RECURSIVE nodeDB2_saveBranch(_, _)
nodeDB2_saveBranch(S, n) ==
    IF S.heap[n].persisted THEN [Ok(S) EXCEPT !.val = S.heap[n].hash]
    ELSE
      LET L  == IF S.heap[n].leftNode # Nil
                THEN nodeDB2_saveBranch(S, S.heap[n].leftNode) ELSE Ok(S)
          S1 == IF S.heap[n].leftNode # Nil
                THEN [L.s EXCEPT !.heap[n].leftHash = L.val]
                ELSE L.s
          R  == IF S1.heap[n].rightNode # Nil
                THEN nodeDB2_saveBranch(S1, S1.heap[n].rightNode) ELSE Ok(S1)
          S2 == IF S1.heap[n].rightNode # Nil
                THEN [R.s EXCEPT !.heap[n].rightHash = R.val]
                ELSE R.s
          N  == nodeDB2_SaveNode(hashNode(S2, n), n)
      IN  IF L.err # "" THEN L
          ELSE IF R.err # "" THEN R
          ELSE IF N.err # "" THEN N
          ELSE [Ok([N.s EXCEPT !.heap[n].leftNode = Nil, !.heap[n].rightNode = Nil])
                   EXCEPT !.val = N.s.heap[n].hash]

\* nodeDB.SaveBranch
RECURSIVE nodeDB_SaveBranch(_, _, _)
nodeDB_SaveBranch(S, n, flushToDisk) ==
    IF S.heap[n].persisted THEN [Ok(S) EXCEPT !.val = S.heap[n].hash]
    ELSE IF S.heap[n].persistedMem /\ ~flushToDisk
    THEN [Ok(S) EXCEPT !.val = S.heap[n].hash]
    ELSE
      LET L  == IF S.heap[n].leftNode # Nil
                THEN nodeDB_SaveBranch(S, S.heap[n].leftNode, flushToDisk) ELSE Ok(S)
          S1 == IF S.heap[n].leftNode # Nil
                THEN [L.s EXCEPT !.heap[n].leftHash = L.val]
                ELSE L.s
          R  == IF S1.heap[n].rightNode # Nil
                THEN nodeDB_SaveBranch(S1, S1.heap[n].rightNode, flushToDisk) ELSE Ok(S1)
          S2 == IF S1.heap[n].rightNode # Nil
                THEN [R.s EXCEPT !.heap[n].rightHash = R.val]
                ELSE R.s
          N  == nodeDB_SaveNode(hashNode(S2, n), n, flushToDisk)
      IN  IF L.err # "" THEN L
          ELSE IF R.err # "" THEN R
          ELSE IF N.err # "" THEN N
          ELSE IF flushToDisk
          THEN [Ok([N.s EXCEPT !.heap[n].leftNode = Nil, !.heap[n].rightNode = Nil])
                   EXCEPT !.val = N.s.heap[n].hash]
          ELSE [Ok(N.s) EXCEPT !.val = N.s.heap[n].hash]

SaveBranch(S, n, flushToDisk) ==
    IF S.ctor = "NewNodeDB2" THEN nodeDB2_saveBranch(S, n)
    ELSE nodeDB_SaveBranch(S, n, flushToDisk)

\* nodeDB2.Commit
nodeDB2_Commit(S) ==
    [S EXCEPT !.db = batchWrite(S.db, S.batch), !.batch = EmptyMap]

\* nodeDB.Commit that drops the whole cache where it should trim it
nodeDB_Commit_clearing(S) ==
    [S EXCEPT !.db = batchWrite(S.db, S.batch), !.batch = EmptyMap,
              !.queue = IF Len(S.queue) > S.size THEN <<>> ELSE S.queue]

\* nodeDB.Commit: also FlushCache
nodeDB_Commit(S) ==
    [S EXCEPT !.db = batchWrite(S.db, S.batch), !.batch = EmptyMap,
              !.queue = FlushCache(S.queue, S.size)]

Commit(S) ==
    IF S.ctor = "NewNodeDB2" THEN nodeDB2_Commit(S) ELSE nodeDB_Commit(S)

\* ------------------------------------------------------------- tree driver
\* The caller of the store is the versioned tree.  Its working tree shares
\* the persisted nodes of the previous version and adds new node objects; a
\* new object has no hash until SaveBranch computes it.
Latest(S) == getLatestVersion(S).latestVersion

NewLeaf(id, version) ==
    [key |-> id, version |-> version, leftHash |-> Nil, rightHash |-> Nil,
     hash |-> Nil, leftNode |-> Nil, rightNode |-> Nil,
     persisted |-> FALSE, persistedMem |-> FALSE]

\* the hashes of the subtree under hash r, following the child hashes
RECURSIVE Reach(_, _)
Reach(h, r) ==
    IF r = Nil THEN {}
    ELSE {r} \cup Reach(h, h[r].leftHash) \cup Reach(h, h[r].rightHash)

ExtendHeap(h, new) ==
    [i \in DOMAIN h \cup DOMAIN new |-> IF i \in DOMAIN new THEN new[i] ELSE h[i]]

\* the nodes of the previous version that the working tree no longer holds,
\* each with the version that created it
Displaced(h, old, new) ==
    [x \in Reach(h, old) \ Reach(h, new) |-> h[x].version]

Here == Store(queue, CacheSize)
Side == Store(queue0, 0)

NoOrphans == [x \in {} |-> 0]

\* The threads: one writer (the tree) and the readers.  A sync.Mutex is
\* unlocked or locked by one of them.
Writer   == 0
Readers  == 1..NReaders
Threads  == {Writer} \cup Readers
Unlocked == -1

\* A thread that is in no call.  A reader keeps how its last GetNode ended
\* ("hit", "miss", "panic") and, in held, whether the writer held batchMtx
\* from the beginning of that call to its end.
IdleThread ==
    [pc |-> "idle", hash |-> Nil, version |-> 0, flag |-> FALSE,
     todo |-> <<>>, node |-> NoNode, held |-> FALSE, last |-> ""]

Returned(t, how) == [IdleThread EXCEPT !.last = how, !.held = thr[t].held]

Call(op, version, hash, flag, orphans, R, R0) ==
    [op |-> op, version |-> version, hash |-> hash, flag |-> flag,
     orphans |-> orphans, err |-> R.err, node |-> R.node, val |-> R.val,
     err0 |-> R0.err, node0 |-> R0.node, val0 |-> R0.val, log |-> R.s.log]

\* the fields of the store after a call; the store run side by side differs
\* from it in its cache alone
Install(S, S0) ==
    /\ db' = S.db
    /\ batch' = S.batch
    /\ latestVersion' = S.latestVersion
    /\ memNodes' = S.memNodes
    /\ heap' = S.heap
    /\ queue' = S.queue
    /\ queue0' = S0.queue
    /\ UNCHANGED <<ctor, onlyFlushOnSave, lockvars>>

Init ==
    /\ ctor \in {"NewNodeDB", "NewNodeDB3", "NewNodeDB2"}
    /\ onlyFlushOnSave \in BOOLEAN
    /\ onlyFlushOnSave => ctor = "NewNodeDB3"
    /\ db = EmptyMap
    /\ batch = EmptyMap
    /\ latestVersion = 0
    /\ memNodes = {}
    /\ heap = EmptyMap
    /\ queue = <<>>
    /\ queue0 = <<>>
    /\ phase = "idle"
    /\ workRoot = Nil
    /\ baseRoot = Nil
    /\ proto = TRUE
    /\ ret = Call("init", 0, Nil, FALSE, NoOrphans, Ok(Here), Ok(Side))
    /\ batchMtx = Unlocked
    /\ nodeCacheMtx = Unlocked
    /\ mtx = Unlocked
    /\ thr = [t \in Threads |-> IdleThread]

\* The tree starts the next version: it keeps its root, empties the tree,
\* replaces the root by a new leaf, or by a new inner node over subtrees that
\* are new leaves (l, r = Nil) or subtrees of the previous version.
Build(kind, l, r) ==
    LET k  == Cardinality(DOMAIN heap)
        v  == Latest(Here) + 1
        lid == IF l = Nil THEN k + 2 ELSE l
        rid == IF r = Nil THEN (IF l = Nil THEN k + 3 ELSE k + 2) ELSE r
        used == 1 + (IF l = Nil THEN 1 ELSE 0) + (IF r = Nil THEN 1 ELSE 0)
        root == [NewLeaf(k + 1, v) EXCEPT
                    !.leftHash = l, !.rightHash = r,
                    !.leftNode = IF l = Nil THEN lid ELSE Nil,
                    !.rightNode = IF r = Nil THEN rid ELSE Nil]
        leaves == [i \in ({lid} \ {l}) \cup ({rid} \ {r}) |-> NewLeaf(i, v)]
    IN
    /\ phase = "idle"
    /\ v <= MaxVersion
    /\ \/ /\ kind = "same" /\ l = Nil /\ r = Nil
          /\ workRoot' = baseRoot
          /\ heap' = heap
       \/ /\ kind = "empty" /\ l = Nil /\ r = Nil
          /\ baseRoot # Nil
          /\ workRoot' = Nil
          /\ heap' = heap
       \/ /\ kind = "leaf" /\ l = Nil /\ r = Nil
          /\ k + 1 <= MaxHash
          /\ workRoot' = k + 1
          /\ heap' = ExtendHeap(heap, [i \in {k + 1} |-> NewLeaf(k + 1, v)])
       \/ /\ kind = "inner"
          /\ k + used <= MaxHash
          /\ l # Nil => l \in Reach(heap, baseRoot)
          /\ r # Nil => r \in Reach(heap, baseRoot)
          /\ (l # Nil /\ r # Nil) => Reach(heap, l) \cap Reach(heap, r) = {}
          /\ workRoot' = k + 1
          /\ heap' = ExtendHeap(ExtendHeap(heap, leaves), [i \in {k + 1} |-> root])
    /\ phase' = IF workRoot' = Nil THEN "branched" ELSE "built"
    /\ ret' = Call("Build", v, workRoot', FALSE, NoOrphans, Ok(Here), Ok(Side))
    /\ UNCHANGED <<ctor, onlyFlushOnSave, db, batch, latestVersion, memNodes,
                   queue, queue0, baseRoot, proto, lockvars>>

\* SaveBranch(workRoot, flushToDisk)
DoSaveBranch(flushToDisk) ==
    LET R  == SaveBranch(Here, workRoot, flushToDisk)
        R0 == SaveBranch(Side, workRoot, flushToDisk)
    IN
    /\ phase = "built"
    /\ Install(R.s, R0.s)
    /\ phase' = IF R.s.heap[workRoot].persisted THEN "branched" ELSE "built"
    /\ ret' = Call("SaveBranch", 0, workRoot, flushToDisk, NoOrphans, R, R0)
    /\ UNCHANGED <<workRoot, baseRoot, proto>>

\* SaveNode(workRoot, flushToDisk), a call the tree makes outside SaveBranch.
\* Writing a node whose in-memory children are not persisted is not what the
\* tree protocol does.
DoSaveNode(n, flushToDisk) ==
    LET R  == SaveNode(Here, n, flushToDisk)
        R0 == SaveNode(Side, n, flushToDisk)
        kids == {heap[n].leftNode, heap[n].rightNode} \ {Nil}
    IN
    /\ n = workRoot
    /\ n # Nil
    /\ phase \in {"built", "branched"}
    /\ Install(R.s, R0.s)
    /\ proto' = (proto /\ (R.s.heap[n].persisted /\ ~heap[n].persisted
                            => \A c \in kids : heap[c].persisted))
    /\ ret' = Call("SaveNode", 0, n, flushToDisk, NoOrphans, R, R0)
    /\ UNCHANGED <<phase, workRoot, baseRoot>>

\* SaveOrphans(version, orphans) for the version under construction
DoSaveOrphans(W) ==
    LET version == Latest(Here) + 1
        orphans == Displaced(heap, baseRoot, workRoot)
        R  == SaveOrphans(Here, version, orphans, W)
        R0 == SaveOrphans(Side, version, orphans, W)
    IN
    /\ phase = "branched"
    /\ W \in orphanSchedules(orphans, SaveOrphansToVersion(Here, version))
    /\ Install(R.s, R0.s)
    /\ phase' = IF R.err = "" THEN "orphaned" ELSE "branched"
    /\ proto' = (proto /\ R.err = "")
    /\ ret' = Call("SaveOrphans", version, Nil, FALSE, orphans, R, R0)
    /\ UNCHANGED <<workRoot, baseRoot>>

\* SaveRoot(workRoot, version), with any version
DoSaveRoot(version) ==
    LET R  == SaveRoot(Here, workRoot, version)
        R0 == SaveRoot(Side, workRoot, version)
    IN
    /\ workRoot # Nil
    /\ phase = "orphaned" \/ (phase = "built" /\ heap[workRoot].hash = Nil)
    /\ Install(R.s, R0.s)
    /\ phase' = IF R.err = "" THEN "sealed" ELSE phase
    /\ baseRoot' = IF R.err = "" THEN workRoot ELSE baseRoot
    /\ ret' = Call("SaveRoot", version, workRoot, FALSE, NoOrphans, R, R0)
    /\ UNCHANGED <<workRoot, proto>>

\* SaveEmptyRoot(version), with any version
DoSaveEmptyRoot(version) ==
    LET R  == SaveEmptyRoot(Here, version)
        R0 == SaveEmptyRoot(Side, version)
    IN
    /\ workRoot = Nil
    /\ phase = "orphaned"
    /\ Install(R.s, R0.s)
    /\ phase' = IF R.err = "" THEN "sealed" ELSE phase
    /\ baseRoot' = IF R.err = "" THEN Nil ELSE baseRoot
    /\ ret' = Call("SaveEmptyRoot", version, Nil, FALSE, NoOrphans, R, R0)
    /\ UNCHANGED <<workRoot, proto>>

\* Commit(), at any time
DoCommit ==
    LET S  == Commit(Here)
        S0 == Commit(Side)
    IN
    /\ Install(S, S0)
    /\ phase' = IF phase = "sealed" THEN "idle" ELSE phase
    /\ proto' = (proto /\ phase \in {"idle", "sealed"})
    /\ ret' = Call("Commit", 0, Nil, FALSE, NoOrphans, Ok(S), Ok(S0))
    /\ UNCHANGED <<workRoot, baseRoot>>

\* DeleteVersion(version, checkLatestVersion) of a version that was saved
DoDeleteVersion(version, checkLatestVersion) ==
    LET R  == DeleteVersion(Here, version, checkLatestVersion)
        R0 == DeleteVersion(Side, version, checkLatestVersion)
    IN
    /\ version <= Latest(Here)
    /\ Install(R.s, R0.s)
    /\ proto' = (proto /\ version < Latest(Here) /\ phase \in {"idle", "sealed"})
    /\ ret' = Call("DeleteVersion", version, Nil, checkLatestVersion, NoOrphans, R, R0)
    /\ UNCHANGED <<phase, workRoot, baseRoot>>

\* GetNode(hash)
DoGetNode(hash) ==
    LET R  == GetNode(Here, hash)
        R0 == GetNode(Side, hash)
    IN
    /\ Install(R.s, R0.s)
    /\ ret' = Call("GetNode", 0, hash, FALSE, NoOrphans, R, R0)
    /\ UNCHANGED <<phase, workRoot, baseRoot, proto>>

\* getRoot(version)
DoGetRoot(version) ==
    LET R  == getRoot(Here, version)
        R0 == getRoot(Side, version)
    IN
    /\ ret' = Call("getRoot", version, Nil, FALSE, NoOrphans, R, R0)
    /\ UNCHANGED <<ctor, onlyFlushOnSave, db, batch, latestVersion, memNodes, heap,
                   queue, queue0, phase, workRoot, baseRoot, proto, lockvars>>

\* Has(hash)
DoHas(hash) ==
    /\ ret' = Call("Has", 0, hash, FALSE, NoOrphans,
                   [Ok(Here) EXCEPT !.val = Has(Here, hash)],
                   [Ok(Side) EXCEPT !.val = Has(Side, hash)])
    /\ UNCHANGED <<ctor, onlyFlushOnSave, db, batch, latestVersion, memNodes, heap,
                   queue, queue0, phase, workRoot, baseRoot, proto, lockvars>>

\* The tree protocol on disk (flushToDisk = TRUE), with pruning between two
\* versions or before the root of the next version is saved, and Commit once
\* the nodes and orphans of a version are buffered.
Next ==
    \/ \E kind \in {"same", "empty", "leaf", "inner"} :
           \E l, r \in {Nil} \cup DOMAIN heap : Build(kind, l, r)
    \/ DoSaveBranch(TRUE)
    \/ \E W \in SUBSET DOMAIN heap : DoSaveOrphans(W)
    \/ \E v \in 1..(MaxVersion + 1) : DoSaveRoot(v)
    \/ \E v \in 1..(MaxVersion + 1) : DoSaveEmptyRoot(v)
    \/ (phase \in {"idle", "sealed", "orphaned"} /\ DoCommit)
    \/ \E v \in Versions : \E c \in BOOLEAN :
           (phase \in {"idle", "orphaned"} /\ DoDeleteVersion(v, c))

Spec == Init /\ [][Next]_vars

\* The same store with its readers: GetNode, getRoot and Has at any time,
\* nodes staged in memory (flushToDisk = FALSE) before they are flushed, and
\* pruning with the latest-version check between two committed versions.
NextCache ==
    \/ \E kind \in {"same", "empty", "leaf", "inner"} :
           \E l, r \in {Nil} \cup DOMAIN heap :
               (Latest(Here) < MaxCacheVersion /\ Build(kind, l, r))
    \/ \E f \in BOOLEAN : DoSaveBranch(f)
    \/ \E n \in DOMAIN heap : \E f \in BOOLEAN : DoSaveNode(n, f)
    \/ \E W \in SUBSET DOMAIN heap : DoSaveOrphans(W)
    \/ \E v \in 1..(MaxCacheVersion + 1) : DoSaveRoot(v)
    \/ \E v \in 1..(MaxCacheVersion + 1) : DoSaveEmptyRoot(v)
    \/ (phase \in {"idle", "sealed"} /\ DoCommit)
    \/ \E v \in Versions : (phase = "idle" /\ DoDeleteVersion(v, TRUE))
    \/ \E h \in {Nil} \cup DOMAIN heap : DoGetNode(h)
    \/ \E v \in 1..MaxCacheVersion : DoGetRoot(v)
    \/ \E h \in DOMAIN heap : DoHas(h)

SpecCache == Init /\ [][NextCache]_vars

\* The constructor run over a backing store that holds data: a fresh batch,
\* an empty cache, no staged nodes and latestVersion = 0 ("initially invalid").
Reopen(S) ==
    [S EXCEPT !.batch = EmptyMap, !.latestVersion = 0, !.memNodes = {},
              !.queue = <<>>]

\* The version the tree was building: its save calls are not committed
HalfBuilt ==
    IF phase = "idle" THEN 0
    ELSE IF phase = "sealed" THEN Latest(Here)
    ELSE Latest(Here) + 1

\* The node objects after a restart: what the backing store holds is
\* persisted, every other object is lost with the process
Reload(h, d) ==
    [i \in DOMAIN h |->
        [h[i] EXCEPT !.persisted = ~dbMissing(d, nodeKey(i)),
                     !.persistedMem = FALSE,
                     !.leftNode = Nil, !.rightNode = Nil]]

\* The process crashes and the store is opened again over the backing
\* store; the tree loads the root of the latest version.  The call records
\* the version that was being built and whether buffered writes were lost.
Crash ==
    LET R  == Reopen(Here)
        R0 == Reopen(Side)
        l  == Latest(R)
    IN
    /\ Install([R EXCEPT !.heap = Reload(heap, db)], R0)
    /\ phase' = "idle"
    /\ baseRoot' = IF l = 0 THEN Nil ELSE db[rootKey(l)]
    /\ workRoot' = baseRoot'
    /\ ret' = Call("Reopen", HalfBuilt, Nil, batch # EmptyMap, NoOrphans,
                    Ok(R), Ok(R0))
    /\ UNCHANGED proto

\* The tree protocol with one Commit per version, pruning with the
\* latest-version check between versions, and a crash at any point.
NextCrash ==
    \/ \E kind \in {"same", "empty", "leaf", "inner"} :
           \E l, r \in {Nil} \cup DOMAIN heap :
               (Latest(Here) < MaxCacheVersion /\ Build(kind, l, r))
    \/ DoSaveBranch(TRUE)
    \/ \E W \in SUBSET DOMAIN heap : DoSaveOrphans(W)
    \/ \E v \in 1..(MaxCacheVersion + 1) : DoSaveRoot(v)
    \/ \E v \in 1..(MaxCacheVersion + 1) : DoSaveEmptyRoot(v)
    \/ (phase \in {"idle", "sealed"} /\ DoCommit)
    \/ \E v \in Versions : (phase = "idle" /\ DoDeleteVersion(v, TRUE))
    \/ Crash

SpecCrash == Init /\ [][NextCrash]_vars

\* ------------------------------------------------------- locks of nodeDB2
\* The calls of nodeDB2 at the grain of its two mutexes.  A thread in a call
\* is at one of its sections (pc); Locks(pc) are the mutexes the section runs
\* under, in the order the code locks them.  A section first locks what it
\* does not hold yet, one mutex at a step, then runs and unlocks.

\* GetNode reading the backing store under the batch lock
Locks_readerBatch(pc) ==
    CASE pc \in {"getCachedNode", "cacheNode"} -> <<"nodeCacheMtx">>
      [] pc \in {"writeNode", "SaveOrphans", "saveRoot", "Commit",
                 "deleteOrphans", "dbGet"} -> <<"batchMtx">>
      [] pc = "uncacheNode" -> <<"batchMtx", "nodeCacheMtx">>
      [] OTHER -> <<>>

\* cacheNode taking the batch lock inside the cache lock
Locks_cacheFirst(pc) ==
    CASE pc = "getCachedNode" -> <<"nodeCacheMtx">>
      [] pc = "cacheNode" -> <<"nodeCacheMtx", "batchMtx">>
      [] pc \in {"writeNode", "SaveOrphans", "saveRoot", "Commit",
                 "deleteOrphans"} -> <<"batchMtx">>
      [] pc = "uncacheNode" -> <<"batchMtx", "nodeCacheMtx">>
      [] OTHER -> <<>>

\* getCachedNode, cacheNode: nodeCacheMtx.  writeNode, SaveOrphans, saveRoot,
\* Commit, DeleteVersion (deleteOrphans, deleteRoot): batchMtx.  uncacheNode
\* is called by deleteOrphans, under batchMtx.  db.Get in GetNode: no lock.
Locks(pc) ==
    CASE pc \in {"getCachedNode", "cacheNode"} -> <<"nodeCacheMtx">>
      [] pc \in {"writeNode", "SaveOrphans", "saveRoot", "Commit",
                 "deleteOrphans"} -> <<"batchMtx">>
      [] pc = "uncacheNode" -> <<"batchMtx", "nodeCacheMtx">>
      [] OTHER -> <<>>

\* nodeDB: GetNode, SaveNode, DeleteVersion, SaveOrphans, Commit and saveRoot
\* lock the one mutex of the store on entry and unlock it when they return.
nodeDB_Locks(pc) == IF pc = "idle" THEN <<>> ELSE <<"mtx">>

Holder(l) ==
    IF l = "batchMtx" THEN batchMtx
    ELSE IF l = "nodeCacheMtx" THEN nodeCacheMtx
    ELSE mtx

\* the mutex thread t has to lock next, "none" when it holds all of Locks(pc)
NextLock(t) ==
    LET need == IF ctor = "NewNodeDB2" THEN Locks(thr[t].pc) ELSE nodeDB_Locks(thr[t].pc)
        miss == {i \in 1..Len(need) : Holder(need[i]) # t}
    IN  IF miss = {} THEN "none"
        ELSE need[CHOOSE i \in miss : \A j \in miss : i <= j]

Busy(t) == thr[t].pc # "idle"

\* thread t is in a call and holds the mutexes of its section
Ready(t) == Busy(t) /\ NextLock(t) = "none"

\* thread t can take a step: run its section, or lock a free mutex
Runnable(t) == Busy(t) /\ (NextLock(t) = "none" \/ Holder(NextLock(t)) = Unlocked)

\* mtx.Lock(): blocks while the mutex is locked
Acquire(t) ==
    /\ Busy(t)
    /\ NextLock(t) # "none"
    /\ Holder(NextLock(t)) = Unlocked
    /\ batchMtx' = IF NextLock(t) = "batchMtx" THEN t ELSE batchMtx
    /\ nodeCacheMtx' = IF NextLock(t) = "nodeCacheMtx" THEN t ELSE nodeCacheMtx
    /\ mtx' = IF NextLock(t) = "mtx" THEN t ELSE mtx
    /\ UNCHANGED <<ctor, onlyFlushOnSave, db, batch, latestVersion, memNodes, heap,
                   queue, queue0, phase, workRoot, baseRoot, proto, ret, thr>>

\* The end of a section of thread t: the deferred Unlock of every mutex it
\* holds but those in keep (the mutex of a function that has not returned
\* yet: batchMtx inside DeleteVersion, mtx inside a call of nodeDB); t goes
\* on as rec.  The held flag of a reader in a
\* call says that the writer has held batchMtx ever since the call began.
Leave(t, rec, keep) ==
    LET unlocked == batchMtx = t /\ "batchMtx" \notin keep
    IN  /\ batchMtx' = IF unlocked THEN Unlocked ELSE batchMtx
        /\ nodeCacheMtx' = IF nodeCacheMtx = t /\ "nodeCacheMtx" \notin keep
                           THEN Unlocked ELSE nodeCacheMtx
        /\ mtx' = IF mtx = t /\ "mtx" \notin keep THEN Unlocked ELSE mtx
        /\ thr' = [u \in Threads |->
                      IF u = t THEN rec
                      ELSE IF unlocked /\ Busy(u) THEN [thr[u] EXCEPT !.held = FALSE]
                      ELSE thr[u]]

\* the fields of the store after a section
InstallStore(S) ==
    /\ db' = S.db
    /\ batch' = S.batch
    /\ latestVersion' = S.latestVersion
    /\ heap' = S.heap
    /\ queue' = S.queue
    /\ UNCHANGED <<ctor, onlyFlushOnSave, memNodes, queue0, proto>>

\* ---- GetNode(hash), thread r
CallGetNode(r, hash) ==
    /\ ~Busy(r)
    /\ thr' = [thr EXCEPT ![r] =
                  IF hash = Nil
                  THEN [IdleThread EXCEPT !.last = "panic"]
                  ELSE [IdleThread EXCEPT !.pc = "getCachedNode", !.hash = hash,
                                          !.held = (batchMtx = Writer)]]
    /\ UNCHANGED <<ctor, onlyFlushOnSave, db, batch, latestVersion, memNodes, heap,
                   queue, queue0, phase, workRoot, baseRoot, proto, ret,
                   batchMtx, nodeCacheMtx, mtx>>

\* getCachedNode (in nodeDB the cache check of GetNode): a hit returns the
\* node and moves it to the back
AtGetCachedNode(r) ==
    LET hash == thr[r].hash
        i    == cacheIndex(queue, hash)
    IN
    /\ Ready(r)
    /\ thr[r].pc = "getCachedNode"
    /\ IF i # 0
       THEN /\ queue' = cacheTouch(queue, hash)
            /\ Leave(r, Returned(r, "hit"), {})
       ELSE /\ queue' = queue
            /\ Leave(r, [thr[r] EXCEPT !.pc = "dbGet"], {"mtx"})
    /\ UNCHANGED <<ctor, onlyFlushOnSave, db, batch, latestVersion, memNodes, heap,
                   queue0, phase, workRoot, baseRoot, proto, ret>>

\* ndb.db.Get(nodeKey(hash)), MakeNode.  In nodeDB the read follows a look
\* into memNodes, which is empty here: the writer saves with flushToDisk.
AtDbGet(r) ==
    LET hash == thr[r].hash
        node == [MakeNode(db[nodeKey(hash)]) EXCEPT !.hash = hash, !.persisted = TRUE]
    IN
    /\ Ready(r)
    /\ thr[r].pc = "dbGet"
    /\ IF dbMissing(db, nodeKey(hash))
       THEN Leave(r, Returned(r, "panic"), {})
       ELSE Leave(r, [thr[r] EXCEPT !.pc = "cacheNode", !.node = node], {"mtx"})
    /\ UNCHANGED <<ctor, onlyFlushOnSave, db, batch, latestVersion, memNodes, heap,
                   queue, queue0, phase, workRoot, baseRoot, proto, ret>>

\* cacheNode(node) at the end of GetNode
AtCacheNode(r) ==
    LET hash == thr[r].hash
    IN
    /\ r \in Readers
    /\ Ready(r)
    /\ thr[r].pc = "cacheNode"
    /\ queue' = cacheNode(Here, hash, Decoded(thr[r].node)).queue
    /\ Leave(r, Returned(r, "miss"), {})
    /\ UNCHANGED <<ctor, onlyFlushOnSave, db, batch, latestVersion, memNodes, heap,
                   queue0, phase, workRoot, baseRoot, proto, ret>>

\* ---- the writer
\* saveBranch visits the nodes that are not persisted, children first
RECURSIVE PostOrder(_, _)
PostOrder(h, n) ==
    IF n = Nil THEN <<>>
    ELSE IF h[n].persisted THEN <<>>
    ELSE PostOrder(h, h[n].leftNode) \o PostOrder(h, h[n].rightNode) \o <<n>>

\* SaveBranch(workRoot, true)
CallSaveBranch ==
    LET todo == PostOrder(heap, workRoot)
    IN
    /\ ~Busy(Writer)
    /\ phase = "built"
    /\ IF todo = <<>>
       THEN /\ phase' = "branched"
            /\ UNCHANGED thr
       ELSE /\ phase' = phase
            /\ thr' = [thr EXCEPT ![Writer] = [IdleThread EXCEPT
                          !.pc = "writeNode", !.hash = Head(todo), !.todo = todo]]
    /\ UNCHANGED <<ctor, onlyFlushOnSave, db, batch, latestVersion, memNodes, heap,
                   queue, queue0, workRoot, baseRoot, proto, ret,
                   batchMtx, nodeCacheMtx, mtx>>

\* saveBranch on one node, its children done: the child hashes, _hash(), and
\* writeNode of SaveNode
AtWriteNode(w) ==
    LET n  == thr[w].hash
        l  == heap[n].leftNode
        r  == heap[n].rightNode
        S1 == [Here EXCEPT !.heap[n].leftHash  = IF l # Nil THEN heap[l].hash ELSE @,
                           !.heap[n].rightHash = IF r # Nil THEN heap[r].hash ELSE @]
    IN
    /\ Ready(w)
    /\ thr[w].pc = "writeNode"
    /\ InstallStore(writeNode(hashNode(S1, n), n))
    /\ Leave(w, [thr[w] EXCEPT !.pc = "cacheNode"], {"mtx"})
    /\ UNCHANGED <<phase, workRoot, baseRoot, ret>>

\* cacheNode(node) of SaveNode; saveBranch then drops the child pointers and
\* returns to the parent
AtCacheSavedNode(w) ==
    LET n    == thr[w].hash
        S1   == cacheNode(Here, heap[n].hash, HeapRef(n))
        S2   == [S1 EXCEPT !.heap[n].leftNode = Nil, !.heap[n].rightNode = Nil]
        rest == Tail(thr[w].todo)
    IN
    /\ w = Writer
    /\ Ready(w)
    /\ thr[w].pc = "cacheNode"
    /\ InstallStore(S2)
    /\ IF rest = <<>>
       THEN /\ phase' = "branched"
            /\ Leave(w, IdleThread, {})
       ELSE /\ phase' = phase
            /\ Leave(w, [thr[w] EXCEPT !.pc = "writeNode", !.hash = Head(rest),
                                       !.todo = rest], {})
    /\ UNCHANGED <<workRoot, baseRoot, ret>>

\* a call of the writer that is one section under batchMtx
CallLocked(pc, version, hash) ==
    /\ ~Busy(Writer)
    /\ thr' = [thr EXCEPT ![Writer] = [IdleThread EXCEPT
                  !.pc = pc, !.version = version, !.hash = hash]]
    /\ UNCHANGED <<ctor, onlyFlushOnSave, db, batch, latestVersion, memNodes, heap,
                   queue, queue0, phase, workRoot, baseRoot, proto, ret,
                   batchMtx, nodeCacheMtx, mtx>>

\* SaveOrphans(version, orphans) for the version under construction
CallSaveOrphans == phase = "branched" /\ CallLocked("SaveOrphans", Latest(Here) + 1, Nil)

AtSaveOrphans(w) ==
    LET version == thr[w].version
        orphans == Displaced(heap, baseRoot, workRoot)
    IN
    /\ Ready(w)
    /\ thr[w].pc = "SaveOrphans"
    /\ \E W \in orphanSchedules(orphans, SaveOrphansToVersion(Here, version)) :
          LET R == SaveOrphans(Here, version, orphans, W)
          IN  /\ InstallStore(R.s)
              /\ phase' = IF R.err = "" THEN "orphaned" ELSE "branched"
    /\ Leave(w, IdleThread, {})
    /\ UNCHANGED <<workRoot, baseRoot, ret>>

\* SaveRoot(workRoot, version) or SaveEmptyRoot(version)
CallSaveRoot(version) ==
    /\ phase = "orphaned"
    /\ CallLocked("saveRoot", version, IF workRoot = Nil THEN Nil ELSE heap[workRoot].hash)

AtSaveRoot(w) ==
    LET R == saveRoot(Here, thr[w].hash, thr[w].version)
    IN
    /\ Ready(w)
    /\ thr[w].pc = "saveRoot"
    /\ InstallStore(R.s)
    /\ phase' = IF R.err = "" THEN "sealed" ELSE phase
    /\ baseRoot' = IF R.err = "" THEN workRoot ELSE baseRoot
    /\ Leave(w, IdleThread, {})
    /\ UNCHANGED <<workRoot, ret>>

\* Commit()
CallCommit == phase \in {"idle", "sealed"} /\ CallLocked("Commit", 0, Nil)

AtCommit(w) ==
    LET S == Commit(Here)
    IN
    /\ Ready(w)
    /\ thr[w].pc = "Commit"
    /\ InstallStore(S)
    /\ phase' = IF phase = "sealed" THEN "idle" ELSE phase
    /\ Leave(w, IdleThread, {})
    /\ UNCHANGED <<workRoot, baseRoot, ret>>

\* the keys of a traversal, in key order
RECURSIVE KeySeq(_)
KeySeq(K) == IF K = {} THEN <<>> ELSE <<FirstKey(K)>> \o KeySeq(K \ {FirstKey(K)})

\* DeleteVersion(version, checkLatestVersion) between two versions
CallDeleteVersion(version, checkLatestVersion) ==
    /\ ~Busy(Writer)
    /\ phase = "idle"
    /\ version <= Latest(Here)
    /\ thr' = [thr EXCEPT ![Writer] = [IdleThread EXCEPT
                  !.pc = "deleteOrphans", !.version = version,
                  !.flag = checkLatestVersion,
                  !.todo = KeySeq({k \in KeysWithPrefix(db, "o") : k.v1 = version})]]
    /\ UNCHANGED <<ctor, onlyFlushOnSave, db, batch, latestVersion, memNodes, heap,
                   queue, queue0, phase, workRoot, baseRoot, proto, ret,
                   batchMtx, nodeCacheMtx, mtx>>

\* deleteOrphans: the callback on the next orphan key, up to its uncacheNode;
\* after the last key deleteRoot, and the deferred Unlock of DeleteVersion
AtDeleteOrphans(w) ==
    LET version == thr[w].version
        todo    == thr[w].todo
        p       == getPreviousVersion(db, version)
        k       == Head(todo)
        S1      == [deleteOrphan(Here, k, p) EXCEPT !.queue = queue]
        R       == deleteRoot(Here, version, thr[w].flag)
    IN
    /\ Ready(w)
    /\ thr[w].pc = "deleteOrphans"
    /\ IF todo = <<>>
       THEN /\ InstallStore(R.s)
            /\ Leave(w, IdleThread, {})
       ELSE /\ InstallStore(S1)
            /\ Leave(w, [thr[w] EXCEPT
                            !.pc = IF p < k.v2 \/ k.v2 = k.v1
                                   THEN "uncacheNode" ELSE "deleteOrphans",
                            !.hash = db[k], !.todo = Tail(todo)],
                     {"batchMtx", "mtx"})
    /\ UNCHANGED <<phase, workRoot, baseRoot, ret>>

\* uncacheNode(hash), called by the callback
AtUncacheNode(w) ==
    /\ Ready(w)
    /\ thr[w].pc = "uncacheNode"
    /\ queue' = uncacheNode(queue, thr[w].hash)
    /\ Leave(w, [thr[w] EXCEPT !.pc = "deleteOrphans"], {"batchMtx", "mtx"})
    /\ UNCHANGED <<ctor, onlyFlushOnSave, db, batch, latestVersion, memNodes, heap,
                   queue0, phase, workRoot, baseRoot, proto, ret>>

\* the section thread t is at
Run(t) ==
    \/ AtGetCachedNode(t)
    \/ AtDbGet(t)
    \/ AtCacheNode(t)
    \/ AtWriteNode(t)
    \/ AtCacheSavedNode(t)
    \/ AtSaveOrphans(t)
    \/ AtSaveRoot(t)
    \/ AtCommit(t)
    \/ AtDeleteOrphans(t)
    \/ AtUncacheNode(t)

\* One writer that follows the tree protocol, pruning with the
\* latest-version check, and readers that call GetNode at any time, every
\* call of nodeDB2 interleaved at its sections.  The calls
\* overlap: how a call ended is kept in its thread, and ret is left alone.
NextLocks ==
    \/ \E kind \in {"same", "empty", "leaf", "inner"} :
           \E l, r \in {Nil} \cup DOMAIN heap :
               (~Busy(Writer) /\ Latest(Here) < MaxCacheVersion /\ Build(kind, l, r))
    \/ CallSaveBranch
    \/ CallSaveOrphans
    \/ \E v \in 1..(MaxCacheVersion + 1) : CallSaveRoot(v)
    \/ CallCommit
    \/ \E v \in Versions : CallDeleteVersion(v, TRUE)
    \/ \E r \in Readers : \E h \in {Nil} \cup DOMAIN heap : CallGetNode(r, h)
    \/ \E t \in Threads : Acquire(t)
    \/ \E t \in Threads : Run(t)

InitLocks == Init /\ ctor = "NewNodeDB2"

SpecLocks == InitLocks /\ [][NextLocks]_vars

\* The scheduler runs every thread that can run; sync.Mutex hands a mutex to
\* a thread that keeps waiting for it (starvation mode).
SpecLocksFair ==
    /\ SpecLocks
    /\ \A t \in Threads : WF_vars(Run(t)) /\ SF_vars(Acquire(t))

\* The same writer and readers on a store of either implementation: nodeDB2
\* with its two mutexes, nodeDB (NewNodeDB, NewNodeDB3) with its one.
SpecMutex == Init /\ [][NextLocks]_vars

\* ---- the calls of the interface that lock nothing
\* getLatestVersion(), called by the tree
CallGetLatestVersion == CallLocked("getLatestVersion", 0, Nil)

\* if ndb.latestVersion == 0: the scan of the root keys
AtGetLatestVersion(t) ==
    /\ Ready(t)
    /\ thr[t].pc = "getLatestVersion"
    /\ IF latestVersion = 0
       THEN Leave(t, [thr[t] EXCEPT !.pc = "setLatestVersion",
                                    !.version = getPreviousVersion(db, MaxInt64)], {})
       ELSE Leave(t, IdleThread, {})
    /\ UNCHANGED <<ctor, onlyFlushOnSave, db, batch, latestVersion, memNodes, heap,
                   queue, queue0, phase, workRoot, baseRoot, proto, ret>>

\* ndb.latestVersion = the version the scan found
AtSetLatestVersion(t) ==
    /\ Ready(t)
    /\ thr[t].pc = "setLatestVersion"
    /\ latestVersion' = thr[t].version
    /\ Leave(t, IdleThread, {})
    /\ UNCHANGED <<ctor, onlyFlushOnSave, db, batch, memNodes, heap,
                   queue, queue0, phase, workRoot, baseRoot, proto, ret>>

\* resetLatestVersion(version), called by the tree between two versions with
\* the version it has loaded
CallResetLatestVersion(version) ==
    /\ phase = "idle"
    /\ version = getPreviousVersion(db, MaxInt64)
    /\ CallLocked("resetLatestVersion", version, Nil)

AtResetLatestVersion(w) ==
    /\ Ready(w)
    /\ thr[w].pc = "resetLatestVersion"
    /\ latestVersion' = thr[w].version
    /\ Leave(w, IdleThread, {})
    /\ UNCHANGED <<ctor, onlyFlushOnSave, db, batch, memNodes, heap,
                   queue, queue0, phase, workRoot, baseRoot, proto, ret>>

\* ResetBatch() and RestMemBatch(), called by the tree between two versions
CallResetBatch(name) ==
    /\ phase = "idle"
    /\ CallLocked(name, 0, Nil)

AtResetBatch(w) ==
    /\ Ready(w)
    /\ thr[w].pc \in {"ResetBatch", "RestMemBatch"}
    /\ batch' = EmptyMap
    /\ Leave(w, IdleThread, {})
    /\ UNCHANGED <<ctor, onlyFlushOnSave, db, latestVersion, memNodes, heap,
                   queue, queue0, phase, workRoot, baseRoot, proto, ret>>

\* nodeDB2 called through its whole interface: the calls above beside those
\* of the writer and the readers
NextIface ==
    \/ NextLocks
    \/ CallGetLatestVersion
    \/ \E v \in 0..MaxCacheVersion : CallResetLatestVersion(v)
    \/ \E name \in {"ResetBatch", "RestMemBatch"} : CallResetBatch(name)
    \/ \E t \in Threads : AtGetLatestVersion(t)
    \/ \E t \in Threads : AtSetLatestVersion(t)
    \/ \E t \in Threads : AtResetLatestVersion(t)
    \/ \E t \in Threads : AtResetBatch(t)

SpecIface == InitLocks /\ [][NextIface]_vars

TypeOK == /\ phase \in {"idle", "built", "branched", "orphaned", "sealed"}
          /\ latestVersion \in 0..MaxVersion

\* -------------------------------------------------------------- properties
LatestNow == Latest(Here)

IsSaveRoot(r) == r.op \in {"SaveRoot", "SaveEmptyRoot"} /\ r.err # "panic"

\* C1: saveRoot(hash, v) (SaveRoot with a hashed root, SaveEmptyRoot) succeeds
\* if and only if v = latest() + 1; on success the root entry of v is buffered
\* in the batch and latest() is v; on failure (NonConsecutiveVersion) the batch
\* and latest() are what they were.
C1_SaveRootConsecutive ==
    [][IsSaveRoot(ret') =>
          /\ (ret'.err = "") <=> (ret'.version = LatestNow + 1)
          /\ ret'.err = "" =>
                /\ rootKey(ret'.version) \in DOMAIN batch'
                /\ batch'[rootKey(ret'.version)] =
                       [op |-> "set",
                        val |-> IF ret'.op = "SaveRoot" THEN heap[ret'.hash].hash ELSE Nil]
                /\ LatestNow' = ret'.version
          /\ ret'.err # "" =>
                /\ ret'.err = "NonConsecutiveVersion"
                /\ batch' = batch
                /\ LatestNow' = LatestNow]_vars

\* a SaveRoot that was refused while a version is sealed and buffered
C1_Witness ==
    /\ ret.op = "SaveRoot"
    /\ ret.err = "NonConsecutiveVersion"
    /\ ret.version = latestVersion + 2
    /\ latestVersion >= 1
    /\ batch # EmptyMap

\* every hash under h, following the child hashes of the stored nodes, has a
\* node entry in the store d
RECURSIVE Closed(_, _)
Closed(d, h) ==
    \/ h = Nil
    \/ /\ nodeKey(h) \in DOMAIN d
       /\ Closed(d, d[nodeKey(h)].leftHash)
       /\ Closed(d, d[nodeKey(h)].rightHash)

RootVersions(d) == {k.v1 : k \in KeysWithPrefix(d, "r")}

\* C2: pruning soundness.  When the versions were built by the tree protocol
\* and pruned by DeleteVersion calls on versions below the latest, then after
\* every Commit each version that has a root entry has, in the backing store,
\* the node entry of every hash its root references.
C2_PruningSound ==
    (proto /\ ret.op = "Commit") =>
        \A v \in RootVersions(db) : Closed(db, db[rootKey(v)])

\* a commit after which a node is destroyed, a version was pruned and a
\* surviving version still has a tree
C2_Witness ==
    /\ proto
    /\ ret.op = "Commit"
    /\ \E h \in DOMAIN heap : heap[h].persisted /\ dbMissing(db, nodeKey(h))
    /\ \E v \in RootVersions(db) : db[rootKey(v)] # Nil /\ v < latestVersion
    /\ \E v \in 1..latestVersion : v \notin RootVersions(db)

OrphanKeys(d) == KeysWithPrefix(d, "o")

\* the versions whose root deletion is buffered: the DeleteVersion calls that
\* returned since the last Commit
DeletedInBatch ==
    {v \in Versions : rootKey(v) \in DOMAIN batch /\ batch[rootKey(v)].op = "delete"}

\* C3: when a Commit completes, every version v whose DeleteVersion(v, .)
\* returned since the previous Commit has no root entry in the backing store
\* and the backing store holds no orphan entry whose last version is v,
\* whatever other DeleteVersion calls were buffered before that Commit.  It
\* is stated for the stores that were driven by the tree protocol and pruned
\* below their latest version only.
C3_DeletedVersionGone ==
    [][(ret'.op = "Commit" /\ proto') =>
          \A v \in DeletedInBatch :
              /\ dbMissing(db', rootKey(v))
              /\ \A k \in OrphanKeys(db') : k.v1 # v]_vars

\* C4: DeleteVersion(v, TRUE) panics whenever v is the latest version, and a
\* DeleteVersion call with checkLatestVersion = TRUE leaves the root entry of
\* the latest version as it was, in the batch and in the backing store.
C4_LatestRootKept ==
    [][(ret'.op = "DeleteVersion" /\ ret'.flag) =>
          /\ ret'.version = LatestNow => ret'.err = "panic"
          /\ (rootKey(LatestNow) \in DOMAIN batch') = (rootKey(LatestNow) \in DOMAIN batch)
          /\ rootKey(LatestNow) \in DOMAIN batch =>
                 batch'[rootKey(LatestNow)] = batch[rootKey(LatestNow)]
          /\ dbGet(db', rootKey(LatestNow)) = dbGet(db, rootKey(LatestNow))]_vars

\* DeleteVersion(latest, TRUE) has panicked on a latest version whose root is
\* committed and not scheduled for deletion
C4_Witness ==
    /\ ret.op = "DeleteVersion" /\ ret.flag /\ ret.err = "panic"
    /\ ret.version = latestVersion
    /\ rootKey(ret.version) \in DOMAIN db
    /\ rootKey(ret.version) \notin DOMAIN batch

\* C5: the latest-version check is the first step of DeleteVersion: a call
\* DeleteVersion(v, TRUE) that fails because v is the latest version has
\* changed neither the pending batch nor the node cache.
C5_CheckIsFirstStep ==
    [][(ret'.op = "DeleteVersion" /\ ret'.flag /\ ret'.version = LatestNow
          /\ ret'.err # "") =>
          /\ batch' = batch
          /\ queue' = queue]_vars

\* C6: after every Commit the backing store holds at most one orphan entry
\* per hash.
C6_OrphanUnique ==
    ret.op = "Commit" =>
        \A k1, k2 \in OrphanKeys(db) : k1.hash = k2.hash => k1 = k2

\* a commit that wrote the shortened lifetime of an orphan: its last version
\* is below the version of a node that was built over it
C6_Witness ==
    /\ ret.op = "Commit"
    /\ proto
    /\ \E k \in OrphanKeys(db) : \E n \in DOMAIN heap :
           /\ k.hash \in {heap[n].leftHash, heap[n].rightHash}
           /\ heap[n].persisted
           /\ heap[n].version > k.v1

\* C7: SaveOrphans(version, orphans) buffers, for every entry hash ->
\* fromVersion, the orphan entry (hash, first = fromVersion, last = version - 1),
\* in both implementations.
C7_LastIsVersionMinusOne ==
    ret.op = "SaveOrphans" =>
        \A h \in DOMAIN ret.orphans :
            /\ orphanKey(ret.orphans[h], ret.version - 1, h) \in DOMAIN batch
            /\ batch[orphanKey(ret.orphans[h], ret.version - 1, h)]
                   = [op |-> "set", val |-> h]

IsRead(r) == r.op \in {"GetNode", "getRoot", "Has"}

SameResults(r) == r.err = r.err0 /\ r.node = r.node0 /\ r.val = r.val0

\* C8: round trip.  GetNode of a hash whose node was written by SaveNode and
\* has its node entry in the backing store returns a node with that hash, the
\* content that was saved and persisted = true, from the cache or from the
\* backing store.
C8_RoundTrip ==
    (ret.op = "GetNode" /\ ret.hash # Nil /\ heap[ret.hash].persisted
        /\ ~dbMissing(db, nodeKey(ret.hash))) =>
        /\ ret.err = ""
        /\ ret.node = [hash |-> ret.hash, content |-> writeBytes(heap[ret.hash]),
                       persisted |-> TRUE]
        /\ ret.node.content = db[nodeKey(ret.hash)]

\* GetNode has decoded a committed node from the backing store, after the
\* object cached by SaveNode was evicted
C8_Witness ==
    /\ ret.op = "GetNode" /\ ret.err = ""
    /\ heap[ret.hash].persisted
    /\ ~dbMissing(db, nodeKey(ret.hash))
    /\ Len(queue) > 0
    /\ queue[Len(queue)].hash = ret.hash
    /\ queue[Len(queue)].node.obj = Nil

C10_OnlyCommitWrites ==
    [][/\ db' # db => ret'.op = "Commit"
       /\ (ret'.op = "getRoot" /\ ret'.err = "") =>
              ret'.val = dbGet(db, rootKey(ret'.version))
       /\ ret'.op = "Has" => ret'.val = (nodeKey(ret'.hash) \in DOMAIN db)
       /\ (ret'.op = "GetNode" /\ ret'.err = "" /\ cacheIndex(queue, ret'.hash) = 0
             /\ ret'.hash \notin memNodes) =>
              /\ nodeKey(ret'.hash) \in DOMAIN db
              /\ ret'.node.content = db[nodeKey(ret'.hash)]]_vars

\* getRoot finds no root for a version whose root is buffered in the batch
C10_Witness ==
    /\ ret.op = "getRoot" /\ ret.err = "" /\ ret.val = Absent
    /\ rootKey(ret.version) \in DOMAIN batch
    /\ batch[rootKey(ret.version)].op = "set"

\* the hashes of the cache queue, least recently used first
QueueHashes(q) == [i \in 1..Len(q) |-> q[i].hash]

\* the hashes nodeCache has a key for
CachedHashes(q) == {q[i].hash : i \in {j \in 1..Len(q) : q[j].mapped}}

\* C11 as stated: Commit leaves the node cache as it was, the cached hashes
\* and their LRU order, under every constructor.
C11_CommitKeepsCache ==
    [][ret'.op = "Commit" => queue' = queue]_vars

\* C11: Commit leaves the node cache as it was unless the store was built by
\* NewNodeDB3 with nodeCacheOnlyFlushOnSave and the cache holds more than
\* nodeCacheSize nodes; then Commit drops the least recently used nodes until
\* nodeCacheSize are left and keeps the order of the rest.
C11_CommitKeepsOrTrimsCache ==
    [][ret'.op = "Commit" =>
          LET over == onlyFlushOnSave /\ Len(queue) > CacheSize
              n    == IF over THEN Len(queue) - CacheSize ELSE 0
          IN  /\ ~over => queue' = queue
              /\ QueueHashes(queue') = SubSeq(QueueHashes(queue), n + 1, Len(queue))
              /\ CachedHashes(queue') \subseteq CachedHashes(queue)]_vars

\* a Commit of the first version in the flush-only-on-save mode, after which
\* the cache holds nodeCacheSize of the nodes that were saved and cached
C11_Witness ==
    /\ ret.op = "Commit"
    /\ onlyFlushOnSave
    /\ latestVersion = 1
    /\ Len(queue) = CacheSize
    /\ Cardinality({h \in DOMAIN heap : heap[h].persisted}) > CacheSize

MaxOr0(S) == IF S = {} THEN 0 ELSE Max(S)

\* C12: when the process crashes after save calls that no Commit followed and
\* the store is opened again, the backing store is what the last Commit left;
\* latest() is the largest version with a root entry in it; the version that
\* was being built has no root entry (getRoot finds none), none of its nodes
\* has a node entry and none of the nodes it displaced has an orphan entry.
C12_CrashRecovery ==
    [][ret'.op = "Reopen" =>
          LET hb == ret'.version
          IN  /\ db' = db
              /\ batch' = EmptyMap
              /\ LatestNow' = MaxOr0(RootVersions(db'))
              /\ hb # 0 =>
                    /\ dbMissing(db', rootKey(hb))
                    /\ getRoot(Here', hb).err = "" => getRoot(Here', hb).val = Absent
                    /\ \A k \in KeysWithPrefix(db', "n") : db'[k].version # hb
                    /\ phase \in {"branched", "orphaned"} =>
                          \A k \in OrphanKeys(db') :
                              k.hash \notin DOMAIN Displaced(heap, baseRoot, workRoot)]_vars

\* the store was opened again after a crash that lost the nodes, the orphans
\* and the root of version 2, buffered over a committed version 1
C12_Witness ==
    /\ ret.op = "Reopen"
    /\ ret.flag
    /\ proto
    /\ ret.version = 2
    /\ RootVersions(db) = {1}
    /\ baseRoot # Nil
    /\ db[rootKey(1)] = baseRoot
    /\ \E h \in DOMAIN heap : heap[h].version = 2 /\ heap[h].hash # Nil

\* the versions whose root entry is committed or buffered in the batch
SavedRootVersions == RootVersions(batchWrite(db, batch))

\* C13: after SaveRoot, SaveEmptyRoot, DeleteVersion (with or without the
\* latest-version check) and Commit, getLatestVersion returns the largest
\* version that has a root entry, or 0 when no version has one.
C13_LatestIsLargestRoot ==
    ret.op \in {"SaveRoot", "SaveEmptyRoot", "DeleteVersion", "Commit"} =>
        LatestNow = MaxOr0(SavedRootVersions)

\* hash is neither mapped in the node cache q nor a node entry of the store
Missing(q, d, hash) == cacheIndex(q, hash) = 0 /\ dbMissing(d, nodeKey(hash))

C15_SaveNodeRejectsRework ==
    [][ret'.op = "SaveNode" =>
          LET n == ret'.hash
          IN  /\ (heap[n].hash = Nil \/ heap[n].persisted) =>
                    (ret'.err # "" /\ ret'.err0 # "")
              /\ ret'.err # "" => (batch' = batch /\ queue' = queue)
              /\ ret'.err0 # "" => queue0' = queue0
              /\ batch' # batch => (~heap[n].persisted /\ heap'[n].persisted)]_vars

\* the operation the batch b holds for key: "set", "delete" or "none"
BatchOp(b, key) == IF key \in DOMAIN b THEN b[key].op ELSE "none"

\* the batch b1 holds for key what the batch b held
SameInBatch(b, b1, key) ==
    IF key \in DOMAIN b THEN key \in DOMAIN b1 /\ b1[key] = b[key]
    ELSE key \notin DOMAIN b1

\* C18: DeleteVersion(version, .) with p = getPreviousVersion(version) deletes
\* the entry of every stored orphan whose lifetime ends at version; when
\* p < first or first = last it deletes the node entry of the hash and
\* uncaches the hash; otherwise it records the one orphan (hash, first, p)
\* and leaves the node entry alone.  The stored orphans whose lifetime ends
\* at another version are left alone.
C18_OrphanHandling ==
    [][ret'.op = "DeleteVersion" =>
          LET version == ret'.version
              p == getPreviousVersion(db, version)
          IN  \A k \in OrphanKeys(db) :
                  LET first == k.v2
                      hash  == k.hash
                      short == orphanKey(first, p, hash)
                  IN  IF k.v1 # version
                      THEN SameInBatch(batch, batch', k)
                           \/ \E j \in OrphanKeys(db) :
                                  j.v1 = version /\ k = orphanKey(j.v2, p, j.hash)
                      ELSE /\ BatchOp(batch', k) = "delete"
                           /\ IF p < first \/ first = version
                              THEN /\ BatchOp(batch', nodeKey(hash)) = "delete"
                                   /\ cacheIndex(queue', hash) = 0
                                   /\ cacheIndex(queue0', hash) = 0
                              ELSE /\ BatchOp(batch', short) = "set"
                                   /\ batch'[short].val = hash
                                   /\ SameInBatch(batch, batch', nodeKey(hash))
                                   /\ \A j \in DOMAIN batch' :
                                         (/\ j.prefix = "o"
                                          /\ j.hash = hash
                                          /\ ~SameInBatch(batch, batch', j))
                                         => j \in {k, short}]_vars

\* a DeleteVersion that destroyed the node of one orphan and shortened the
\* lifetime of another
C18_Witness ==
    /\ ret.op = "DeleteVersion"
    /\ ret.err = ""
    /\ \E k \in OrphanKeys(db) :
          /\ k.v1 = ret.version
          /\ BatchOp(batch, k) = "delete"
          /\ BatchOp(batch, nodeKey(k.hash)) = "delete"
    /\ \E k \in OrphanKeys(db) :
          /\ k.v1 = ret.version
          /\ BatchOp(batch, k) = "delete"
          /\ k.v2 < k.v1
          /\ BatchOp(batch, orphanKey(k.v2, getPreviousVersion(db, ret.version), k.hash)) = "set"

\* C19: when DeleteVersion shortens a stored orphan (first, last = version),
\* the new last p satisfies first <= p < last, so that saveOrphan does not
\* panic on it; and every orphan entry that is set in the batch or stored has
\* first <= last.
C19_ShorteningStaysInside ==
    [][/\ ret'.op = "DeleteVersion" =>
             LET version == ret'.version
                 p == getPreviousVersion(db, version)
             IN  \A k \in OrphanKeys(db) :
                     (k.v1 = version /\ ~(p < k.v2 \/ k.v2 = k.v1)) =>
                         /\ k.v2 <= p
                         /\ p < k.v1
                         /\ BatchOp(batch', orphanKey(k.v2, p, k.hash)) = "set"
       /\ \A j \in DOMAIN batch' :
             (j.prefix = "o" /\ batch'[j].op = "set") => j.v2 <= j.v1
       /\ \A j \in OrphanKeys(db') : j.v2 <= j.v1]_vars

\* a DeleteVersion that moved the end of a stored lifetime to its predecessor
C19_Witness ==
    /\ ret.op = "DeleteVersion"
    /\ \E k \in OrphanKeys(db) :
          LET p == getPreviousVersion(db, ret.version)
          IN  /\ k.v1 = ret.version
              /\ k.v2 <= p
              /\ p < k.v1
              /\ BatchOp(batch, orphanKey(k.v2, p, k.hash)) = "set"
              /\ BatchOp(batch, nodeKey(k.hash)) # "delete"

\* C20: every hash in the node cache has a node entry in the backing store
\* or a node write buffered in the batch (or, in nodeDB, is staged in
\* memNodes); a hash whose node entry a DeleteVersion and a Commit destroyed
\* is not in the cache.
C20_CacheSubset ==
    \A h \in CachedHashes(queue) \cup CachedHashes(queue0) :
        \/ ~dbMissing(db, nodeKey(h))
        \/ BatchOp(batch, nodeKey(h)) = "set"
        \/ h \in memNodes

\* C16: GetNode never locks batchMtx and never waits for it.  A reader in
\* GetNode can take its next step, or waits for nodeCacheMtx, and the thread
\* that holds nodeCacheMtx can run its section without locking anything: so
\* GetNode runs to its end while the writer keeps batchMtx.
C16_GetNodeAvoidsBatchLock ==
    \A r \in Readers :
        /\ batchMtx # r
        /\ Busy(r) => NextLock(r) # "batchMtx"
        /\ Busy(r) =>
              \/ Runnable(r)
              \/ /\ NextLock(r) = "nodeCacheMtx"
                 /\ nodeCacheMtx \in Threads \ {r}
                 /\ Ready(nodeCacheMtx)

\* a GetNode that missed the cache, read the store and cached the node has
\* returned, and the writer held batchMtx from its first step to its last
C16_Witness ==
    \E r \in Readers :
        /\ thr[r].last = "miss"
        /\ thr[r].held
        /\ batchMtx = Writer

\* C17: no thread requests batchMtx while it holds nodeCacheMtx; whenever
\* threads are in a call one of them can take a step; and, the threads being
\* scheduled fairly, every call that began returns.
C17_DeadlockFree ==
    /\ [](\A t \in Threads : nodeCacheMtx = t => NextLock(t) # "batchMtx")
    /\ []((\E t \in Threads : Busy(t)) => (\E t \in Threads : Runnable(t)))
    /\ \A t \in Threads : (Busy(t) ~> ~Busy(t))

\* the writer, in DeleteVersion, holds batchMtx and waits in uncacheNode for
\* nodeCacheMtx, which a reader holds
C17_Witness ==
    /\ thr[Writer].pc = "uncacheNode"
    /\ batchMtx = Writer
    /\ nodeCacheMtx \in Readers
    /\ NextLock(Writer) = "nodeCacheMtx"

\* the calls after which the size of the cache is looked at
CacheOps == {"GetNode", "SaveNode", "SaveBranch", "DeleteVersion", "Commit"}

\* the call r, which ended with err, pushed one node into the cache q: a
\* GetNode that missed the cache, or a SaveNode that wrote or staged its node
Inserts(r, err, q) ==
    /\ err = ""
    /\ \/ r.op = "GetNode" /\ cacheIndex(q, r.hash) = 0
       \/ /\ r.op = "SaveNode"
          /\ ctor = "NewNodeDB2" \/ r.flag \/ ~heap[r.hash].persistedMem

\* the queue q1 is q with hash pushed at the back and, when that made it
\* longer than size, its front (the least recently used element) removed
PushedAndEvicted(q, q1, size, hash) ==
    LET pushed == QueueHashes(q) \o <<hash>>
    IN  QueueHashes(q1) =
            IF Len(pushed) > size THEN SubSeq(pushed, 2, Len(pushed)) ELSE pushed

CacheLock == IF ctor = "NewNodeDB2" THEN nodeCacheMtx ELSE mtx

\* the steps of a GetNode of thread t that missed the cache: the look-up
\* that found nothing, the read of the backing store, the insert of the node
MissesCache(t) == thr[t].pc = "getCachedNode" /\ thr'[t].pc = "dbGet"
ReadsStore(t) == thr[t].pc = "dbGet" /\ thr'[t].pc # "dbGet"
InsertsDecoded(t) == thr[t].pc = "cacheNode" /\ thr'[t].last = "miss"

\* C22 as stated: in nodeDB2 and in nodeDB, a GetNode that misses the cache
\* unlocks the mutex of the cache after the look-up, reads the backing store
\* without it, and locks it again to insert the node.
C22_ReadOutsideCacheLock ==
    [][\A t \in Readers :
          /\ MissesCache(t) => (CacheLock = t /\ CacheLock' # t)
          /\ ReadsStore(t) => (CacheLock # t /\ CacheLock' # t)
          /\ InsertsDecoded(t) => (CacheLock = t /\ CacheLock' # t)]_vars

\* the node objects under n that are found through in-memory child pointers
\* without passing a persisted node
RECURSIVE InMemory(_, _)
InMemory(h, n) ==
    IF n = Nil THEN {}
    ELSE IF h[n].persisted THEN {}
    ELSE {n} \cup InMemory(h, h[n].leftNode) \cup InMemory(h, h[n].rightNode)

\* the places of hash in the sequence of node writes
Writes(log, hash) == {i \in 1..Len(log) : log[i] = hash}

\* SaveBranch(n, .) went from the node objects h to h1 and wrote log and the
\* batch b1: it returned the hash of n, and every node of InMemory(h, n) was
\* written once, after its children, with its content, is persisted and has
\* no child pointer; nothing else was written and no other object changed
BranchSaved(r, h, h1, b1) ==
    LET n == r.hash
        T == InMemory(h, n)
    IN  /\ r.err = ""
        /\ r.val # Nil
        /\ r.val = h1[n].hash
        /\ \A x \in T :
              /\ Cardinality(Writes(r.log, h1[x].hash)) = 1
              /\ BatchOp(b1, nodeKey(h1[x].hash)) = "set"
              /\ b1[nodeKey(h1[x].hash)].val = writeBytes(h1[x])
              /\ h1[x].persisted
              /\ h1[x].leftNode = Nil
              /\ h1[x].rightNode = Nil
              /\ \A c \in {h[x].leftNode, h[x].rightNode} \cap T :
                    \A i \in Writes(r.log, h1[c].hash) :
                        \A j \in Writes(r.log, h1[x].hash) : i < j
        /\ Len(r.log) = Cardinality(T)
        /\ \A y \in DOMAIN h \ T : h1[y] = h[y]

RootEntryVersions ==
    RootVersions(db) \cup {v \in Versions : BatchOp(batch, rootKey(v)) = "set"}

\* C24: getPreviousVersion(v) is the largest version below v that has a root
\* entry, 0 when there is none, whether the root entries are committed, have
\* gaps left by pruning, or are only buffered in the pending batch.
C24_PredecessorSeesBatch ==
    \A v \in 1..(MaxVersion + 1) :
        getPreviousVersion(db, v) = MaxOr0({u \in RootEntryVersions : u < v})

\* the call of thread t that was in section pc returns with this step
Ran(t, pc) == thr[t].pc = pc /\ thr'[t].pc = "idle"

\* thread t stores into ndb.latestVersion in this step: the advance in
\* saveRoot, the lazy initialisation, the reset
WritesCounter(t) ==
    \/ (Ran(t, "saveRoot") \/ Ran(t, "deleteOrphans")) /\ latestVersion' # latestVersion
    \/ Ran(t, "setLatestVersion")
    \/ Ran(t, "resetLatestVersion")

\* thread t assigns a new batch to ndb.batch in this step
ReplacesBatch(t) ==
    Ran(t, "Commit") \/ Ran(t, "ResetBatch") \/ Ran(t, "RestMemBatch")

\* C25: every write of the latest-version counter and every replacement of
\* the pending batch in nodeDB2 is done by a thread that holds batchMtx
C25_CounterAndBatchUnderBatchLock ==
    [][\A t \in Threads :
          (WritesCounter(t) \/ ReplacesBatch(t)) => batchMtx = t]_vars

\* the keys that the step from batch b to batch b1 newly schedules for deletion
NewDeletes(b, b1) ==
    {k \in DOMAIN b1 : b1[k].op = "delete" /\ BatchOp(b, k) # "delete"}

\* C26: after every Commit every orphan entry of the backing store has the
\* node entry of its hash in the backing store, and the node entry of a hash
\* that has an orphan entry is scheduled for deletion only by the
\* DeleteVersion call that schedules the deletion of that orphan entry.
C26_OrphanHasNode ==
    [][/\ ret'.op = "Commit" =>
              \A k \in OrphanKeys(db') : ~dbMissing(db', nodeKey(k.hash))
       /\ \A h \in Hashes :
              (nodeKey(h) \in NewDeletes(batch, batch')
                  /\ \E k \in OrphanKeys(db) : k.hash = h) =>
              /\ ret'.op = "DeleteVersion"
              /\ \E k \in NewDeletes(batch, batch') : k.prefix = "o" /\ k.hash = h]_vars

\* a Commit that wrote the deletion of a node together with its orphan entry
\* and left the orphan entry of another node, whose node entry is there
C26_Witness ==
    /\ ret.op = "Commit"
    /\ \E k \in OrphanKeys(db) : ~dbMissing(db, nodeKey(k.hash))
    /\ \E h \in DOMAIN heap :
           /\ heap[h].persisted
           /\ dbMissing(db, nodeKey(h))
           /\ \A k \in OrphanKeys(db) : k.hash # h

\* the map and the queue of a cache describe the same set of nodes: every
\* queue element is the one its hash is mapped to, and no hash is queued twice
Consistent(q) ==
    /\ \A i \in 1..Len(q) : q[i].mapped
    /\ \A i, j \in 1..Len(q) : q[i].hash = q[j].hash => i = j

\* C27: the node-cache map and the LRU queue always describe the same set of
\* nodes, each queue element is the target of exactly one map entry and no
\* hash has two elements in the queue.
C27_CacheConsistent == Consistent(queue) /\ Consistent(queue0)

====
